---- MODULE Spec2Model ----
(***************************************************************************)
(* Model of serial_reader.py: a script that opens a serial port, reads one *)
(* CSV frame per animation tick, keeps the last DATA_POINTS samples in     *)
(* five synchronized deques and redraws four curves from them.             *)
(*                                                                         *)
(* Bytes and characters are one-element strings; a line is a sequence of   *)
(* them.  Clock readings and elapsed times are integers (clock units).     *)
(***************************************************************************)
EXTENDS Integers, Sequences, FiniteSets, TLC

(***************************************************************************)
(* Bounds of the model.                                                    *)
(***************************************************************************)
\* Capacity of the five deques (serial_reader.py:12 sets 50; scaled down).
DATA_POINTS == 2
\* Largest value the wall clock reaches.
MaxClock == 2
\* Number of samples appended in one session of the model: one more than fit.
MaxAppends == DATA_POINTS + 1

VARIABLES
    pc,          \* position of the script / of the tick callback
    ser,         \* global ser: "None" or "Serial"
    is_open,     \* whether the device handle is held (ser.is_open)
    time_data, ldr_data, hum_data, temp_data, press_data,
    start_time,  \* time.time() at import
    clock,       \* last reading of time.time()
    rx,          \* what ser.readline() did in the current call of get_data
    escaped,     \* an exception left the last call of animate uncaught
    appended,    \* every sample appended so far, in arrival order
    lines,       \* the four Line2D objects: their (x, y) data
    xlim,        \* shared x-axis limits, <<>> until first set
    ylim,        \* per-axis y limits, <<>> until first set
    ports,       \* what list_ports.comports() enumerates: (device, hwid) pairs
    port_name,   \* the device name init_serial opens, "unbound" before
    closes       \* number of calls of ser.close() that returned

buffers == <<time_data, ldr_data, hum_data, temp_data, press_data>>
display == <<lines, xlim, ylim>>
vars == <<pc, ser, is_open, time_data, ldr_data, hum_data, temp_data, press_data,
          start_time, clock, rx, escaped, appended, lines, xlim, ylim,
          ports, port_name, closes>>

(***************************************************************************)
(* Text helpers: bytes.decode('utf-8'), str.strip, str.split(','), int().  *)
(***************************************************************************)
Digits == {"0", "1", "2", "3", "4", "5", "6", "7", "8", "9"}
DigitVal == ("0" :> 0) @@ ("1" :> 1) @@ ("2" :> 2) @@ ("3" :> 3) @@ ("4" :> 4) @@
            ("5" :> 5) @@ ("6" :> 6) @@ ("7" :> 7) @@ ("8" :> 8) @@ ("9" :> 9)
Whitespace == {" ", "\t", "\r", "\n"}

\* Marker returned by Decode when the bytes are not valid UTF-8.
DecodeError == <<"UnicodeDecodeError">>

RECURSIVE Decode(_)
\* bytes.decode('utf-8'): ASCII bytes map to themselves, the pair C3 A9 to
\* one character, a lone lead or continuation byte or FF is an error.
Decode(bytes) ==
    IF bytes = <<>> THEN <<>>
    ELSE LET b == Head(bytes) IN
         IF b = "0xC3"
         THEN IF Len(bytes) >= 2 /\ bytes[2] = "0xA9"
              THEN LET rest == Decode(Tail(Tail(bytes))) IN
                   IF rest = DecodeError THEN DecodeError ELSE <<"e'">> \o rest
              ELSE DecodeError
         ELSE IF b \in {"0xA9", "0xFF"} THEN DecodeError
         ELSE LET rest == Decode(Tail(bytes)) IN
              IF rest = DecodeError THEN DecodeError ELSE <<b>> \o rest

RECURSIVE LStrip(_)
LStrip(s) ==
    IF s # <<>> /\ Head(s) \in Whitespace THEN LStrip(Tail(s)) ELSE s

RECURSIVE RStrip(_)
RStrip(s) ==
    IF s # <<>> /\ s[Len(s)] \in Whitespace
    THEN RStrip(SubSeq(s, 1, Len(s) - 1)) ELSE s

\* str.strip()
Strip(s) == RStrip(LStrip(s))

RECURSIVE SplitFrom(_, _)
\* s.split(','), with cur the field being read
SplitFrom(s, cur) ==
    IF s = <<>> THEN <<cur>>
    ELSE IF Head(s) = "," THEN <<cur>> \o SplitFrom(Tail(s), <<>>)
    ELSE SplitFrom(Tail(s), Append(cur, Head(s)))

Split(s) == SplitFrom(s, <<>>)

\* The digits part of an int() literal: digits, single underscores between them.
IsDigits(body) ==
    /\ body # <<>>
    /\ \A i \in 1..Len(body) : body[i] \in Digits \cup {"_"}
    /\ body[1] \in Digits
    /\ body[Len(body)] \in Digits
    /\ \A i \in 1..(Len(body) - 1) : ~(body[i] = "_" /\ body[i + 1] = "_")

Unsigned(f) ==
    LET g == Strip(f) IN
    IF g # <<>> /\ Head(g) \in {"+", "-"} THEN Tail(g) ELSE g

\* int(f) does not raise ValueError
IsInt(f) == IsDigits(Unsigned(f))

RECURSIVE DigitsValue(_, _)
DigitsValue(body, acc) ==
    IF body = <<>> THEN acc
    ELSE IF Head(body) = "_" THEN DigitsValue(Tail(body), acc)
    ELSE DigitsValue(Tail(body), 10 * acc + DigitVal[Head(body)])

\* Mutant: the parsed value is clamped to the ADC range 0..4095.
ToInt_clamped(f) ==
    LET g == Strip(f)
        v == DigitsValue(Unsigned(f), 0)
    IN IF g # <<>> /\ Head(g) = "-" THEN 0 ELSE IF v > 4095 THEN 4095 ELSE v

\* int(f), for a field that IsInt
ToInt(f) ==
    LET g == Strip(f)
        v == DigitsValue(Unsigned(f), 0)
    IN IF g # <<>> /\ Head(g) = "-" THEN 0 - v ELSE v

(***************************************************************************)
(* What the device can put on the wire: the byte strings ser.readline()    *)
(* returns.  <<>> is a read that timed out with nothing received.          *)
(***************************************************************************)
\* b"1,2,3,4\n"
Frame_1234 == <<"1", ",", "2", ",", "3", ",", "4", "\n">>
\* b"5,6,7,8\r\n"
Frame_5678 == <<"5", ",", "6", ",", "7", ",", "8", "\r", "\n">>
\* b" -1,+20, 3,4096\n"
Frame_signed == <<" ", "-", "1", ",", "+", "2", "0", ",", " ", "3", ",", "4", "0", "9", "6", "\n">>
\* b"bad,data\n"
Frame_bad_data == <<"b", "a", "d", ",", "d", "a", "t", "a", "\n">>
\* b"1,2,3\n"
Frame_3_fields == <<"1", ",", "2", ",", "3", "\n">>
\* b"1,2,3,4,5\n"
Frame_5_fields == <<"1", ",", "2", ",", "3", ",", "4", ",", "5", "\n">>
\* b"1,2,x,4\n"
Frame_non_int == <<"1", ",", "2", ",", "x", ",", "4", "\n">>
\* b"1,2,\xff,4\n"
Frame_undecodable == <<"1", ",", "2", ",", "0xFF", ",", "4", "\n">>
\* b"\xc3\xa9,2,3,4\n" (e acute)
Frame_accent == <<"0xC3", "0xA9", ",", "2", ",", "3", ",", "4", "\n">>
\* b"\r\n"
Frame_blank == <<"\r", "\n">>
Frame_timeout == <<>>

Frames == {Frame_1234, Frame_5678, Frame_signed, Frame_bad_data, Frame_3_fields,
           Frame_5_fields, Frame_non_int, Frame_accent, Frame_undecodable,
           Frame_blank, Frame_timeout}

(***************************************************************************)
(* get_data's view of a line that was read.                                *)
(***************************************************************************)
\* line = ser.readline().decode('utf-8').strip(), for bytes that decode
LineOf(bytes) == Strip(Decode(bytes))

\* values = line.split(',')
ValuesOf(bytes) == Split(LineOf(bytes))

\* decode raised UnicodeDecodeError (handled by "except Exception: pass")
Undecodable(bytes) == Decode(bytes) = DecodeError

\* "if line:" is false
EmptyLine(bytes) == ~Undecodable(bytes) /\ LineOf(bytes) = <<>>

\* len(values) == 4 and map(int, values) raises no ValueError
ValidFrame(bytes) ==
    /\ ~Undecodable(bytes)
    /\ LineOf(bytes) # <<>>
    /\ Len(ValuesOf(bytes)) = 4
    /\ \A i \in 1..4 : IsInt(ValuesOf(bytes)[i])

\* the frame is dropped: undecodable, wrong field count or a non-integer field
MalformedFrame(bytes) ==
    \/ Undecodable(bytes)
    \/ /\ LineOf(bytes) # <<>>
       /\ \/ Len(ValuesOf(bytes)) # 4
          \/ /\ Len(ValuesOf(bytes)) = 4
             /\ \E i \in 1..4 : ~IsInt(ValuesOf(bytes)[i])

\* Mutant: a deque created without maxlen never evicts.
DequeAppend_no_maxlen(d, x) == Append(d, x)

\* Mutant: a full deque evicts at the wrong end (the newest entry).
DequeAppend_evict_newest(d, x) ==
    IF Len(d) >= DATA_POINTS THEN Append(SubSeq(d, 1, Len(d) - 1), x) ELSE Append(d, x)

\* deque(maxlen=DATA_POINTS).append(x)
DequeAppend(d, x) ==
    IF Len(d) >= DATA_POINTS THEN Append(Tail(d), x) ELSE Append(d, x)

NoRead == [kind |-> "none", bytes |-> <<>>]

\* ser is not None and ser.is_open
Connected == ser = "Serial" /\ is_open

\* values time.time() may return after having returned clock: the wall clock
\* normally advances, may repeat a reading and may be set back
Now == {t \in 0..MaxClock : t >= clock - 1 /\ t <= clock + 1}

Min(S) == CHOOSE m \in S : \A n \in S : m <= n
Max(S) == CHOOSE m \in S : \A n \in S : m >= n
Range(s) == {s[i] : i \in 1..Len(s)}

(***************************************************************************)
(* Port resolution: find_stlink_port and the fallback of init_serial.      *)
(***************************************************************************)
\* default arguments of find_stlink_port: vid=0x0483, pid=0x374B
vid == 1155
pid == 14155

\* COM_PORT_TO_USE = 'COM3'
COM_PORT_TO_USE == "COM3"

HexDigits == <<"0", "1", "2", "3", "4", "5", "6", "7", "8", "9",
               "A", "B", "C", "D", "E", "F">>

\* f"{n:04X}", for 0 <= n < 65536
Hex4(n) ==
    <<HexDigits[((n \div 4096) % 16) + 1], HexDigits[((n \div 256) % 16) + 1],
      HexDigits[((n \div 16) % 16) + 1], HexDigits[(n % 16) + 1]>>

\* f"VID:PID={v:04X}:{p:04X}"
VidPidText(v, p) ==
    <<"V", "I", "D", ":", "P", "I", "D", "=">> \o Hex4(v) \o <<":">> \o Hex4(p)

\* "sub in text" for two strings
Contains(sub, text) ==
    \E i \in 0..(Len(text) - Len(sub)) : SubSeq(text, i + 1, i + Len(sub)) = sub

\* hardware identifiers as pyserial reports them
\* "USB VID:PID=0483:374B SER=066E" (ST-Link)
Hwid_stlink ==
    <<"U", "S", "B", " ", "V", "I", "D", ":", "P", "I", "D", "=", "0", "4",
      "8", "3", ":", "3", "7", "4", "B", " ", "S", "E", "R", "=", "0", "6",
      "6", "E">>
\* "USB VID:PID=0483:5740 SER=1" (same vendor, another product)
Hwid_same_vendor ==
    <<"U", "S", "B", " ", "V", "I", "D", ":", "P", "I", "D", "=", "0", "4",
      "8", "3", ":", "5", "7", "4", "0", " ", "S", "E", "R", "=", "1">>
\* "USB VID:PID=2341:374B" (another vendor, same product number)
Hwid_same_product ==
    <<"U", "S", "B", " ", "V", "I", "D", ":", "P", "I", "D", "=", "2", "3",
      "4", "1", ":", "3", "7", "4", "B">>
\* "n/a" (a port that is no USB device)
Hwid_none == <<"n", "/", "a">>

Hwids == {Hwid_stlink, Hwid_same_vendor, Hwid_same_product, Hwid_none}
DeviceNames == {"COM4", "COM7"}

\* the (port, desc, hwid) entries of comports(); desc is not looked at
PortInfos == [device : DeviceNames, hwid : Hwids]

\* Largest number of serial devices enumerated.
MaxPorts == 2

PortLists == UNION {[1..n -> PortInfos] : n \in 0..MaxPorts}

RECURSIVE find_stlink_port_last(_)
\* Mutant: the loop does not return at the first match, the last one wins.
find_stlink_port_last(ps) ==
    IF ps = <<>> THEN "None"
    ELSE IF find_stlink_port_last(Tail(ps)) # "None"
         THEN find_stlink_port_last(Tail(ps))
    ELSE IF Contains(VidPidText(vid, pid), Head(ps).hwid) THEN Head(ps).device
    ELSE "None"

RECURSIVE find_stlink_port(_)
\* the first port whose hwid contains the VID:PID text, None when there is none
find_stlink_port(ps) ==
    IF ps = <<>> THEN "None"
    ELSE IF Contains(VidPidText(vid, pid), Head(ps).hwid) THEN Head(ps).device
    ELSE find_stlink_port(Tail(ps))

\* port_name = find_stlink_port() or COM_PORT_TO_USE
PortNameOf(ps) ==
    IF find_stlink_port(ps) \in {"None", ""} THEN COM_PORT_TO_USE
    ELSE find_stlink_port(ps)

(***************************************************************************)
(* Initial state: module globals after lines 15-23.                        *)
(***************************************************************************)
Init ==
    /\ pc = "init_serial"
    /\ ser = "None"
    /\ is_open = FALSE
    /\ time_data = <<>> /\ ldr_data = <<>> /\ hum_data = <<>>
    /\ temp_data = <<>> /\ press_data = <<>>
    /\ start_time = 1
    /\ clock = 1
    /\ rx = NoRead
    /\ escaped = FALSE
    /\ appended = <<>>
    /\ lines = [i \in 1..4 |-> [x |-> <<>>, y |-> <<>>]]
    /\ xlim = <<>>
    /\ ylim = [i \in 1..4 |-> <<>>]
    /\ ports = <<>>
    /\ port_name = "unbound"
    /\ closes = 0

(***************************************************************************)
(* init_serial and the display setup.                                      *)
(***************************************************************************)
\* serial.Serial(...) succeeds
init_serial_ok ==
    /\ pc = "init_serial"
    /\ ser' = "Serial"
    /\ is_open' = TRUE
    /\ port_name' = PortNameOf(ports)
    /\ pc' = "setup"
    /\ UNCHANGED <<escaped, buffers, start_time, ports, closes, clock, rx, appended, display>>

\* Mutant: the except branch prints its messages and forgets exit().
init_serial_fail_no_exit ==
    /\ pc = "init_serial"
    /\ port_name' = PortNameOf(ports)
    /\ pc' = "setup"
    /\ UNCHANGED <<escaped, ser, is_open, buffers, start_time, ports, closes, clock, rx, appended, display>>

\* serial.Serial(...) raises SerialException: messages, then exit()
init_serial_fail ==
    /\ pc = "init_serial"
    /\ port_name' = PortNameOf(ports)
    /\ pc' = "exit_abort"
    /\ UNCHANGED <<escaped, ser, is_open, buffers, start_time, ports, closes, clock, rx, appended, display>>

\* lines 122-146 run to the end
setup_ok ==
    /\ pc = "setup"
    /\ pc' = "show"
    /\ UNCHANGED <<escaped, ser, is_open, buffers, start_time, ports, port_name, closes, clock, rx, appended, display>>

\* a statement of lines 122-146 raises (no display, backend error): the
\* script dies with a traceback, outside the try/finally of lines 149-155
setup_fault ==
    /\ pc = "setup"
    /\ pc' = "exit_crash"
    /\ UNCHANGED <<escaped, ser, is_open, buffers, start_time, ports, port_name, closes, clock, rx, appended, display>>

(***************************************************************************)
(* The finally block of lines 151-155 and what becomes of an exception     *)
(* that leaves the animation callback.                                     *)
(***************************************************************************)
\* is_open after "if ser and ser.is_open: ser.close()", from handle state h
FinallyClose(h) == IF ser = "Serial" /\ h THEN FALSE ELSE h

\* Mutant: the guard is "if ser:", close() is called on a closed handle too.
FinallyCloses_unguarded(h) == IF ser = "Serial" THEN closes + 1 ELSE closes

\* closes after the same statement: close() is called only on an open handle
FinallyCloses(h) == IF ser = "Serial" /\ h THEN closes + 1 ELSE closes

\* The event loop of the backend decides: it reports the exception and goes
\* on ticking, or its timer is not re-armed, or plt.show() re-raises.
Outcomes == {"show", "stalled", "exit_crash"}

\* pc and handle after an exception left animate, with h the handle state
Escape(o, h) ==
    /\ pc' = o
    /\ escaped' = TRUE
    /\ is_open' = IF o = "exit_crash" THEN FinallyClose(h) ELSE h
    /\ closes' = IF o = "exit_crash" THEN FinallyCloses(h) ELSE closes

\* the user closes the window: plt.show() returns, the finally block runs
close_window ==
    /\ pc \in {"show", "stalled"}
    /\ pc' = "exit_ok"
    /\ is_open' = FinallyClose(is_open)
    /\ closes' = FinallyCloses(is_open)
    /\ UNCHANGED <<escaped, ser, buffers, start_time, ports, port_name, clock, rx, appended, display>>

(***************************************************************************)
(* A tick, first half: animate calls get_data.  One action per path        *)
(* through get_data.                                                       *)
(***************************************************************************)
\* Mutant: a call that finds no open connection opens the port again.
get_data_not_connected_reopen ==
    /\ pc = "show"
    /\ ~Connected
    /\ ser' = "Serial"
    /\ is_open' = TRUE
    /\ rx' = NoRead
    /\ pc' = "render"
    /\ escaped' = FALSE
    /\ UNCHANGED <<buffers, start_time, ports, port_name, closes, clock, appended, display>>

\* "if ser is None or not ser.is_open: return"
get_data_not_connected ==
    /\ pc = "show"
    /\ ~Connected
    /\ rx' = NoRead
    /\ pc' = "render"
    /\ escaped' = FALSE
    /\ UNCHANGED <<ser, is_open, buffers, start_time, ports, port_name, closes, clock, appended, display>>

\* readline timed out, or the line is only whitespace: "if line:" is false
get_data_empty ==
    /\ pc = "show"
    /\ Connected
    /\ \E bytes \in Frames :
        /\ EmptyLine(bytes)
        /\ rx' = [kind |-> "line", bytes |-> bytes]
    /\ pc' = "render"
    /\ escaped' = FALSE
    /\ UNCHANGED <<ser, is_open, buffers, start_time, ports, port_name, closes, clock, appended, display>>

\* Mutant: the time stamp is appended before the frame is validated.
get_data_discard_partial ==
    /\ pc = "show"
    /\ Connected
    /\ \E bytes \in Frames :
        /\ MalformedFrame(bytes)
        /\ rx' = [kind |-> "line", bytes |-> bytes]
    /\ time_data' = DequeAppend(time_data, clock - start_time)
    /\ pc' = "render"
    /\ escaped' = FALSE
    /\ UNCHANGED <<ser, is_open, ldr_data, hum_data, temp_data, press_data,
                   start_time, ports, port_name, closes, clock, appended, display>>

\* Mutant: a frame that does not parse is handled like a read fault.
get_data_discard_disconnect ==
    /\ pc = "show"
    /\ Connected
    /\ \E bytes \in Frames :
        /\ MalformedFrame(bytes)
        /\ rx' = [kind |-> "line", bytes |-> bytes]
    /\ is_open' = FALSE
    /\ ser' = "None"
    /\ pc' = "render"
    /\ escaped' = FALSE
    /\ UNCHANGED <<buffers, start_time, ports, port_name, closes, clock, appended, display>>

\* undecodable bytes (except Exception: pass), a field count other than 4
\* (no else branch), or a non-integer field (except ValueError: pass)
get_data_discard ==
    /\ pc = "show"
    /\ Connected
    /\ \E bytes \in Frames :
        /\ MalformedFrame(bytes)
        /\ rx' = [kind |-> "line", bytes |-> bytes]
    /\ pc' = "render"
    /\ escaped' = FALSE
    /\ UNCHANGED <<ser, is_open, buffers, start_time, ports, port_name, closes, clock, appended, display>>

\* Mutant: the call loops while data is waiting and stores two samples.
get_data_append_twice ==
    /\ pc = "show"
    /\ Connected
    /\ Len(appended) + 1 < MaxAppends
    /\ \E bytes \in Frames, t \in Now :
        /\ ValidFrame(bytes)
        /\ LET values == ValuesOf(bytes)
               ldr == ToInt(values[1])
               hum == ToInt(values[2])
               temp == ToInt(values[3])
               press == ToInt(values[4])
               sample == [t |-> t - start_time, ldr |-> ldr, hum |-> hum,
                          temp |-> temp, press |-> press]
           IN /\ clock' = t
              /\ time_data' = DequeAppend(DequeAppend(time_data, sample.t), sample.t)
              /\ ldr_data' = DequeAppend(DequeAppend(ldr_data, ldr), ldr)
              /\ hum_data' = DequeAppend(DequeAppend(hum_data, hum), hum)
              /\ temp_data' = DequeAppend(DequeAppend(temp_data, temp), temp)
              /\ press_data' = DequeAppend(DequeAppend(press_data, press), press)
              /\ appended' = Append(Append(appended, sample), sample)
        /\ rx' = [kind |-> "line", bytes |-> bytes]
    /\ pc' = "render"
    /\ escaped' = FALSE
    /\ UNCHANGED <<ser, is_open, start_time, ports, port_name, closes, display>>

\* Mutant: humidity and temperature are stored in each other's deque.
get_data_append_swapped ==
    /\ pc = "show"
    /\ Connected
    /\ Len(appended) < MaxAppends
    /\ \E bytes \in Frames, t \in Now :
        /\ ValidFrame(bytes)
        /\ LET values == ValuesOf(bytes)
               ldr == ToInt(values[1])
               hum == ToInt(values[3])
               temp == ToInt(values[2])
               press == ToInt(values[4])
           IN /\ clock' = t
              /\ time_data' = DequeAppend(time_data, t - start_time)
              /\ ldr_data' = DequeAppend(ldr_data, ldr)
              /\ hum_data' = DequeAppend(hum_data, hum)
              /\ temp_data' = DequeAppend(temp_data, temp)
              /\ press_data' = DequeAppend(press_data, press)
              /\ appended' = Append(appended,
                     [t |-> t - start_time, ldr |-> ldr, hum |-> hum,
                      temp |-> temp, press |-> press])
        /\ rx' = [kind |-> "line", bytes |-> bytes]
    /\ pc' = "render"
    /\ escaped' = FALSE
    /\ UNCHANGED <<ser, is_open, start_time, ports, port_name, closes, display>>

\* four integer fields: the five appends of lines 68-72
get_data_append ==
    /\ pc = "show"
    /\ Connected
    /\ Len(appended) < MaxAppends
    /\ \E bytes \in Frames, t \in Now :
        /\ ValidFrame(bytes)
        /\ LET values == ValuesOf(bytes)
               ldr == ToInt(values[1])
               hum == ToInt(values[2])
               temp == ToInt(values[3])
               press == ToInt(values[4])
           IN /\ clock' = t
              /\ time_data' = DequeAppend(time_data, t - start_time)
              /\ ldr_data' = DequeAppend(ldr_data, ldr)
              /\ hum_data' = DequeAppend(hum_data, hum)
              /\ temp_data' = DequeAppend(temp_data, temp)
              /\ press_data' = DequeAppend(press_data, press)
              /\ appended' = Append(appended,
                     [t |-> t - start_time, ldr |-> ldr, hum |-> hum,
                      temp |-> temp, press |-> press])
        /\ rx' = [kind |-> "line", bytes |-> bytes]
    /\ pc' = "render"
    /\ escaped' = FALSE
    /\ UNCHANGED <<ser, is_open, start_time, ports, port_name, closes, display>>

\* readline raises serial.SerialException: message, ser.close(), ser = None
get_data_read_fault ==
    /\ pc = "show"
    /\ Connected
    /\ rx' = [kind |-> "SerialException", bytes |-> <<>>]
    /\ is_open' = FALSE
    /\ closes' = closes + 1
    /\ ser' = "None"
    /\ pc' = "render"
    /\ escaped' = FALSE
    /\ UNCHANGED <<buffers, start_time, ports, port_name, clock, appended, display>>

\* readline raises serial.SerialException and ser.close() in the handler
\* raises in turn: "ser = None" is not reached, the handle may or may not
\* have been released, and the exception leaves get_data and animate
get_data_close_fault ==
    /\ pc = "show"
    /\ Connected
    /\ rx' = [kind |-> "SerialException", bytes |-> <<>>]
    /\ \E o \in Outcomes, h \in BOOLEAN : Escape(o, h)
    /\ UNCHANGED <<ser, buffers, start_time, ports, port_name, clock, appended, display>>

\* readline raises anything else that is an Exception: "except Exception: pass"
get_data_other_fault ==
    /\ pc = "show"
    /\ Connected
    /\ rx' = [kind |-> "Exception", bytes |-> <<>>]
    /\ pc' = "render"
    /\ escaped' = FALSE
    /\ UNCHANGED <<ser, is_open, buffers, start_time, ports, port_name, closes, clock, appended, display>>

(***************************************************************************)
(* A tick, second half: the rest of animate (lines 94-115).                *)
(***************************************************************************)
\* lines[k].set_data(x, list(channel)) for the four curves
NewLines ==
    <<[x |-> time_data, y |-> ldr_data], [x |-> time_data, y |-> hum_data],
      [x |-> time_data, y |-> temp_data], [x |-> time_data, y |-> press_data]>>

\* axes[0].set_xlim(max(0, x[-1] - DATA_POINTS), x[-1] + 1)
NewXlim ==
    LET last == time_data[Len(time_data)]
    IN <<Max({0, last - DATA_POINTS}), last + 1>>

\* ax.set_ylim(min(data) - 50, max(data) + 50) for each axis
NewYlim ==
    LET chans == <<ldr_data, hum_data, temp_data, press_data>>
    IN [i \in 1..4 |-> <<Min(Range(chans[i])) - 50, Max(Range(chans[i])) + 50>>]

\* Mutant: the early return is missing its effect-free path, the x axis is
\* reset on an empty buffer.
animate_idle_redraw ==
    /\ pc = "render"
    /\ time_data = <<>>
    /\ xlim' = <<0, 1>>
    /\ pc' = "show"
    /\ rx' = NoRead
    /\ UNCHANGED <<escaped, ser, is_open, buffers, start_time, ports, port_name, closes,
                   clock, appended, lines, ylim>>

\* "if not time_data: return lines"
animate_idle ==
    /\ pc = "render"
    /\ time_data = <<>>
    /\ pc' = "show"
    /\ rx' = NoRead
    /\ UNCHANGED <<escaped, ser, is_open, buffers, start_time, ports, port_name, closes, clock, appended, display>>

\* Mutant: the snapshot drains the deques (popleft until empty).
animate_render_draining ==
    /\ pc = "render"
    /\ time_data # <<>>
    /\ lines' = NewLines
    /\ xlim' = NewXlim
    /\ ylim' = NewYlim
    /\ time_data' = <<>> /\ ldr_data' = <<>> /\ hum_data' = <<>>
    /\ temp_data' = <<>> /\ press_data' = <<>>
    /\ pc' = "show"
    /\ rx' = NoRead
    /\ UNCHANGED <<escaped, ser, is_open, start_time, ports, port_name, closes, clock, appended>>

\* lines 98-115
animate_render ==
    /\ pc = "render"
    /\ time_data # <<>>
    /\ lines' = NewLines
    /\ xlim' = NewXlim
    /\ ylim' = NewYlim
    /\ pc' = "show"
    /\ rx' = NoRead
    /\ UNCHANGED <<escaped, ser, is_open, buffers, start_time, ports, port_name, closes, clock, appended>>

\* the first update, lines[0].set_data, raises: the display is left as it
\* was, and nothing in animate catches the exception
animate_render_fault ==
    /\ pc = "render"
    /\ time_data # <<>>
    /\ \E o \in Outcomes : Escape(o, is_open)
    /\ rx' = NoRead
    /\ UNCHANGED <<ser, buffers, start_time, ports, port_name, clock, appended, display>>

Next ==
    \/ init_serial_ok
    \/ init_serial_fail
    \/ setup_ok
    \/ setup_fault
    \/ get_data_not_connected
    \/ get_data_empty
    \/ get_data_discard
    \/ get_data_append
    \/ get_data_read_fault
    \/ get_data_close_fault
    \/ get_data_other_fault
    \/ animate_idle
    \/ animate_render
    \/ animate_render_fault
    \/ close_window

Spec == Init /\ [][Next]_vars

(***************************************************************************)
(* Port resolution alone: init_serial run on every enumeration of at most  *)
(* MaxPorts devices.                                                       *)
(***************************************************************************)
InitPorts ==
    /\ pc = "init_serial"
    /\ ser = "None"
    /\ is_open = FALSE
    /\ time_data = <<>> /\ ldr_data = <<>> /\ hum_data = <<>>
    /\ temp_data = <<>> /\ press_data = <<>>
    /\ start_time = 1
    /\ clock = 1
    /\ rx = NoRead
    /\ escaped = FALSE
    /\ appended = <<>>
    /\ lines = [i \in 1..4 |-> [x |-> <<>>, y |-> <<>>]]
    /\ xlim = <<>>
    /\ ylim = [i \in 1..4 |-> <<>>]
    /\ ports \in PortLists
    /\ port_name = "unbound"
    /\ closes = 0

NextPorts == init_serial_ok \/ init_serial_fail

SpecPorts == InitPorts /\ [][NextPorts]_vars

(***************************************************************************)
(* Properties.                                                             *)
(***************************************************************************)
Last(s) == s[Len(s)]

\* the values the control variables take
TypeOK ==
    /\ pc \in {"init_serial", "setup", "show", "render", "stalled",
               "exit_abort", "exit_crash", "exit_ok"}
    /\ ser \in {"None", "Serial"}
    /\ is_open \in BOOLEAN
    /\ escaped \in BOOLEAN
    /\ clock \in 0..MaxClock
    /\ Len(appended) <= MaxAppends

\* the frames of Frames that must be dropped, by the reason
WrongCountFrames == {Frame_bad_data, Frame_3_fields, Frame_5_fields}
NonIntegerFrames == {Frame_non_int, Frame_accent}
UndecodableFrames == {Frame_undecodable}
DroppedFrames == WrongCountFrames \cup NonIntegerFrames \cup UndecodableFrames

\* the frames of Frames of the form "a,b,c,d", with their values <<a,b,c,d>>
ExpectedValues(bytes) ==
    IF bytes = Frame_1234 THEN <<1, 2, 3, 4>>
    ELSE IF bytes = Frame_5678 THEN <<5, 6, 7, 8>>
    ELSE <<0 - 1, 20, 3, 4096>>
IntegerFrames == {Frame_1234, Frame_5678, Frame_signed}

\* the step is a call of get_data that read the line rx'.bytes
ReadsLine == pc = "show" /\ rx'.kind = "line"

Channels(sample) == <<sample.ldr, sample.hum, sample.temp, sample.press>>

\* C1: the five sequences always have the same length, which is at most
\* the capacity DATA_POINTS.
C1_SameLengthBounded ==
    /\ Len(ldr_data) = Len(time_data)
    /\ Len(hum_data) = Len(time_data)
    /\ Len(temp_data) = Len(time_data)
    /\ Len(press_data) = Len(time_data)
    /\ Len(time_data) <= DATA_POINTS

\* a malformed frame has just been read with the buffer full after an eviction
C1_Witness ==
    /\ pc = "render"
    /\ rx.kind = "line" /\ rx.bytes \in DroppedFrames
    /\ Len(time_data) = DATA_POINTS
    /\ Len(appended) > DATA_POINTS

\* C2: a call of get_data that reads a frame with a field count other than 4,
\* with a non-integer field or of undecodable bytes leaves the five sequences
\* exactly as they were.
C2_MalformedLeavesBuffers ==
    [][(ReadsLine /\ rx'.bytes \in DroppedFrames) => UNCHANGED buffers]_vars

\* a malformed frame has just been read while the buffer held samples
C2_Witness ==
    /\ pc = "render"
    /\ rx.kind = "line" /\ rx.bytes \in DroppedFrames
    /\ time_data # <<>>

\* C3: a call of get_data that reads "a,b,c,d" appends exactly one sample,
\* with the values (a,b,c,d) in the order light, humidity, temperature,
\* pressure at the same last index of the four channel sequences; a call
\* that reads a malformed frame appends none.
C3_ValidFrameAppendsOne ==
    [][/\ (ReadsLine /\ rx'.bytes \in IntegerFrames) =>
            /\ Len(appended') = Len(appended) + 1
            /\ SubSeq(appended', 1, Len(appended)) = appended
            /\ Channels(Last(appended')) = ExpectedValues(rx'.bytes)
            /\ Len(time_data') = Len(ldr_data') /\ Len(time_data') = Len(hum_data')
            /\ Len(time_data') = Len(temp_data') /\ Len(time_data') = Len(press_data')
            /\ <<Last(ldr_data'), Last(hum_data'), Last(temp_data'), Last(press_data')>>
                 = ExpectedValues(rx'.bytes)
            /\ Last(time_data') = Last(appended').t
       /\ (ReadsLine /\ rx'.bytes \in DroppedFrames) => appended' = appended
      ]_vars

\* "5,6,7,8" has just been read and the session appended (1,2,3,4), (5,6,7,8)
C3_Witness ==
    /\ pc = "render"
    /\ rx.bytes = Frame_5678
    /\ Len(appended) = 2
    /\ ldr_data = <<1, 5>> /\ hum_data = <<2, 6>>
    /\ temp_data = <<3, 7>> /\ press_data = <<4, 8>>

\* C4: the elapsed times retained in the buffer are strictly increasing in
\* buffer order, whatever the clock does.
C4_TimesStrictlyIncreasing ==
    \A i \in 1..(Len(time_data) - 1) : time_data[i] < time_data[i + 1]

\* the last min(k, DATA_POINTS) of the k samples appended
Retained ==
    LET k == Len(appended)
        m == IF k < DATA_POINTS THEN k ELSE DATA_POINTS
    IN SubSeq(appended, k - m + 1, k)

\* C5: after k appends the buffer holds exactly the last min(k, DATA_POINTS)
\* appended samples, in arrival order, in all five sequences.
C5_KeepsLastN ==
    /\ Len(time_data) = Len(Retained)
    /\ \A i \in 1..Len(Retained) :
        /\ time_data[i] = Retained[i].t
        /\ ldr_data[i] = Retained[i].ldr
        /\ hum_data[i] = Retained[i].hum
        /\ temp_data[i] = Retained[i].temp
        /\ press_data[i] = Retained[i].press
    /\ Len(ldr_data) = Len(Retained) /\ Len(hum_data) = Len(Retained)
    /\ Len(temp_data) = Len(Retained) /\ Len(press_data) = Len(Retained)

\* more samples were appended than fit: the oldest is gone, the second-oldest
\* is now first
C5_Witness ==
    /\ Len(appended) = DATA_POINTS + 1
    /\ Len(time_data) = DATA_POINTS
    /\ ldr_data[1] = appended[2].ldr
    /\ appended[1].ldr # appended[2].ldr

\* C6: a read fault leaves the connection Disconnected (handle closed, ser
\* None) with the tick going on, and from then on get_data changes neither
\* the five sequences nor ser.
C6_ReadFaultDisconnects ==
    [][/\ (pc = "show" /\ rx'.kind = "SerialException") =>
            (ser' = "None" /\ ~is_open' /\ pc' = "render")
       /\ (pc \in {"show", "render"} /\ ser = "None") =>
            (ser' = "None" /\ UNCHANGED buffers)
      ]_vars

\* C7: no terminal state of a session that acquired the handle has it open.
C7_HandleReleasedAtExit ==
    pc \in {"exit_ok", "exit_crash", "exit_abort"} => ~is_open

\* C8: no exception other than a read fault leaves a tick: the tick ends
\* back in the render loop with the five sequences and the connection as
\* they were, and the loop goes on.
C8_FaultsSuppressed ==
    [][/\ ~escaped'
       /\ pc \in {"show", "render"} => pc' \in {"show", "render", "exit_ok"}
       /\ (pc = "show" /\ rx'.kind = "Exception") =>
            UNCHANGED <<buffers, ser, is_open>>
      ]_vars

\* C9: when the open fails the session ends at once, with the five sequences
\* empty and no connection, and nothing runs afterwards.
C9_OpenFailureAborts ==
    [][/\ (pc = "init_serial" /\ ser' = "None") => pc' = "exit_abort"
       /\ pc' = "exit_abort" =>
            /\ time_data' = <<>> /\ ldr_data' = <<>> /\ hum_data' = <<>>
            /\ temp_data' = <<>> /\ press_data' = <<>>
            /\ ser' = "None" /\ ~is_open'
       /\ pc = "exit_abort" => pc' = "exit_abort"
      ]_vars

\* the open failed
C9_Witness == pc = "exit_abort" /\ ser = "None" /\ time_data = <<>>

\* C10: a call of get_data that drops a malformed frame leaves the
\* connection Connected with the same handle; inside the render loop the
\* connection stops being Connected only in a call whose read raised
\* SerialException.
C10_ParseFailureKeepsConnection ==
    [][/\ (ReadsLine /\ rx'.bytes \in DroppedFrames) =>
            (Connected /\ ser' = ser /\ is_open' = is_open)
       /\ (Connected /\ ~Connected' /\ pc' \in {"show", "render", "stalled"}) =>
            (pc = "show" /\ rx'.kind = "SerialException")
      ]_vars

\* a malformed frame has just been dropped and the connection is Connected
C10_Witness ==
    /\ pc = "render"
    /\ rx.kind = "line" /\ rx.bytes \in DroppedFrames
    /\ Connected

\* the hardware identifiers of Hwids that contain "VID:PID=0483:374B"
MatchingHwids == {Hwid_stlink}

\* C11: the name init_serial opens is that of the first enumerated device
\* whose hardware identifier contains the target VID:PID, and COM_PORT_TO_USE
\* when no device matches.
C11_FirstMatchOrFallback ==
    pc # "init_serial" =>
        \/ \E i \in 1..Len(ports) :
            /\ ports[i].hwid \in MatchingHwids
            /\ \A j \in 1..(i - 1) : ports[j].hwid \notin MatchingHwids
            /\ port_name = ports[i].device
        \/ /\ \A i \in 1..Len(ports) : ports[i].hwid \notin MatchingHwids
           /\ port_name = "COM3"

\* two ST-Links are enumerated under different names and the first was taken
C11_Witness ==
    /\ pc = "setup"
    /\ Len(ports) = 2
    /\ ports[1].hwid = Hwid_stlink /\ ports[2].hwid = Hwid_stlink
    /\ ports[1].device # ports[2].device
    /\ port_name = ports[1].device

\* C12: the part of animate after get_data leaves the five sequences as they
\* are; they change only in a call of get_data that read a frame of integers.
C12_RenderLeavesBuffers ==
    [][/\ pc = "render" => UNCHANGED buffers
       /\ buffers' # buffers => (ReadsLine /\ rx'.bytes \in IntegerFrames)
      ]_vars

\* a tick has rendered a non-empty buffer
C12_Witness ==
    /\ pc = "show"
    /\ time_data # <<>>
    /\ lines[1].x = time_data
    /\ xlim # <<>>

\* C13 as stated: every retained channel value lies in 0..4095.
C13_ValuesInAdcRange ==
    \A i \in 1..Len(time_data) :
        /\ ldr_data[i] \in 0..4095 /\ hum_data[i] \in 0..4095
        /\ temp_data[i] \in 0..4095 /\ press_data[i] \in 0..4095

\* C13, amended: every retained sample carries the four integers written in
\* a received frame, whatever their range.
C13_ValuesAsReceived ==
    \A i \in 1..Len(time_data) :
        <<ldr_data[i], hum_data[i], temp_data[i], press_data[i]>>
            \in {ExpectedValues(f) : f \in IntegerFrames}

\* a retained sample holds a negative value and one above 4095
C13_Witness ==
    \E i \in 1..Len(time_data) : ldr_data[i] = 0 - 1 /\ press_data[i] = 4096

\* C14: when a tick has ended with a non-empty buffer, each curve is the
\* channel's sequence against the time sequence.
C14_SeriesMatchBuffer ==
    (pc \in {"show", "stalled"} /\ time_data # <<>>) =>
        /\ \A i \in 1..4 : lines[i].x = time_data
        /\ lines[1].y = ldr_data /\ lines[2].y = hum_data
        /\ lines[3].y = temp_data /\ lines[4].y = press_data

\* C15: when a tick has ended with a non-empty buffer, the x axis runs from
\* max(0, latest - DATA_POINTS) to latest + 1, and never starts below 0.
C15_TimeAxisFollowsLatest ==
    (pc \in {"show", "stalled"} /\ time_data # <<>>) =>
        /\ xlim = <<IF Last(time_data) - DATA_POINTS > 0
                    THEN Last(time_data) - DATA_POINTS ELSE 0,
                    Last(time_data) + 1>>
        /\ xlim[1] >= 0

\* C16: the rest of animate on an empty time sequence changes no curve and
\* no axis limit.
C16_IdleTickLeavesDisplay ==
    [][(pc = "render" /\ time_data = <<>>) =>
            (UNCHANGED display /\ pc' = "show")]_vars

\* a tick found the connection lost with nothing ever received, and returned
C16_Witness ==
    /\ pc = "show"
    /\ ser = "None"
    /\ time_data = <<>>
    /\ xlim = <<>>

\* C17: init_serial never runs again; once the connection is lost it is
\* never Connected again, ser stays None and the five sequences stay as
\* they are.
C17_NeverReopens ==
    [][/\ pc # "init_serial" => pc' # "init_serial"
       /\ (pc # "init_serial" /\ ~Connected) => ~Connected'
       /\ (pc # "init_serial" /\ ser = "None") =>
            (ser' = "None" /\ UNCHANGED buffers)
      ]_vars

\* get_data was called after the connection was lost, with samples retained
C17_Witness ==
    /\ pc = "render"
    /\ ser = "None"
    /\ rx = NoRead
    /\ time_data # <<>>

\* C18: the close at shutdown does nothing when the connection is already
\* Disconnected or closed, the session still ends normally, and close()
\* returns at most once in a session.
C18_CloseIdempotent ==
    [][/\ (pc \in {"show", "stalled"} /\ pc' = "exit_ok" /\ ~Connected) =>
            UNCHANGED <<ser, is_open, closes>>
       /\ pc = "stalled" => pc' = "exit_ok"
       /\ closes' <= 1
      ]_vars

\* the window was closed after a read fault had closed the handle
C18_Witness ==
    /\ pc = "exit_ok"
    /\ ser = "None"
    /\ closes = 1

\* C19: a call of get_data appends at most one sample, and only when it read
\* a line; the rest of animate appends none.
C19_AtMostOneSamplePerTick ==
    [][/\ Len(appended') \in {Len(appended), Len(appended) + 1}
       /\ Len(time_data') <= Len(time_data) + 1
       /\ Len(appended') = Len(appended) + 1 => ReadsLine
       /\ pc = "render" => appended' = appended
      ]_vars

\* a tick has appended its one sample
C19_Witness ==
    /\ pc = "render"
    /\ rx.kind = "line" /\ rx.bytes \in IntegerFrames
    /\ Len(appended) = 1
    /\ Len(time_data) = 1

====
